---- MODULE Spec2Model ----
(***************************************************************************)
(* IntelliFlow API gateway: startup configuration, the Descope token       *)
(* service (validateToken), authMiddleware, the /api/auth routes and the   *)
(* /api/v1 proxy router.                                                   *)
(*                                                                         *)
(* The machine follows one request at a time from its arrival to its       *)
(* response, step by step between the awaits of its handler.  What         *)
(* outlives a request is the configuration, DescopeService's projectId and *)
(* jwks fields and the clock.  jose.jwtVerify and the remote key set are   *)
(* library code: they are modelled by the checks jwtVerify makes with the  *)
(* issuer and audience options, in its order, the key fetch ending in any  *)
(* of its outcomes.                                                        *)
(***************************************************************************)
EXTENDS Integers, Sequences, FiniteSets, TLC

(* ---------------- bounds ---------------- *)
\* the wall clock (Date.now() in seconds, abstracted) runs over 0..MaxNow
MaxNow == 2
\* longest scope list put through the scope extraction
MaxScopeLen == 3
\* requests handled concurrently
MaxCalls == 2

(* ---------------- environment and configuration ---------------- *)
Unset == "<unset>"
NodeEnvs == {Unset, "development", "production", "staging"}
ProjectIds == {Unset, "P1"}

\* process.env.X || dflt
OrDefault(v, dflt) == IF v = Unset \/ v = "" THEN dflt ELSE v

\* config object literal
Config(e) ==
    [ nodeEnv          |-> OrDefault(e.NODE_ENV, "development"),
      descopeProjectId |-> OrDefault(e.DESCOPE_PROJECT_ID, "") ]

\* "Validate required config": the condition under which the process exits
ConfigFatal(c) == c.descopeProjectId = "" /\ c.nodeEnv = "production"

(* ---------------- tokens ---------------- *)
NoClaim == "<absent>"
\* `https://api.descope.com/${projectId}`: a URL is the pair <<base, project id>>
DescopeUrl(pid) == <<"https://api.descope.com/", pid>>
UntrustedIssuer == <<"https://evil.example/", "P1">>
\* a payload without iss, exp
NoIss == <<>>
NoExp == -1
IssValues == {NoIss, DescopeUrl("P1"), UntrustedIssuer}
AudValues == {NoClaim, "P1", "other-service"}
ExpValues == {NoExp} \cup 1..MaxNow
SubValues == {NoClaim, "user_1"}

NoArr == [has |-> FALSE, val |-> <<>>]
Arr(s) == [has |-> TRUE, val |-> s]
NoStr == [has |-> FALSE, val |-> <<>>]
Str(s) == [has |-> TRUE, val |-> s]

\* the three ways a payload carries its scope list
ScopeForms ==
    { [scopes |-> Arr(<<"email.read", "email.summarize">>), scope |-> NoStr, permissions |-> NoArr],
      [scopes |-> NoArr, scope |-> Str(<<"calendar.read", " ", "calendar.write">>), permissions |-> NoArr],
      [scopes |-> NoArr, scope |-> NoStr, permissions |-> Arr(<<"email.read", "calendar.write">>)] }

\* a compact JWS: wf = three well-formed segments, sig = the signature verifies
\* under a key of Descope's JWKS, the rest is the payload
WellFormedTokens ==
    [ wf : {TRUE}, sig : BOOLEAN, iss : IssValues, aud : AudValues,
      exp : ExpValues, sub : SubValues, sc : ScopeForms ]
MalformedToken ==
    [ wf |-> FALSE, sig |-> FALSE, iss |-> UntrustedIssuer, aud |-> NoClaim,
      exp |-> 1, sub |-> "user_1",
      sc |-> [scopes |-> NoArr, scope |-> NoStr, permissions |-> NoArr] ]
Tokens == WellFormedTokens \cup {MalformedToken}


(* ---------------- DescopeService ---------------- *)
\* String.prototype.split(' ') on a string given as a sequence of words and
\* " " separators: adjacent separators and leading/trailing ones yield ''
RECURSIVE SplitFrom(_, _, _)
SplitFrom(s, i, cur) ==
    IF i > Len(s) THEN <<cur>>
    ELSE IF s[i] = " " THEN <<cur>> \o SplitFrom(s, i + 1, "")
    ELSE SplitFrom(s, i + 1, s[i])
Split(s) == SplitFrom(s, 1, "")

\* scope extraction taking an empty array for a missing one
ExtractScopes_EmptyArrayFalsy(p) ==
    IF p.scopes.has /\ p.scopes.val # <<>> THEN p.scopes.val
    ELSE IF p.scope.has /\ p.scope.val # <<>> THEN Split(p.scope.val)
    ELSE IF p.permissions.has /\ p.permissions.val # <<>> THEN p.permissions.val
    ELSE <<>>

\* "Extract scopes": scopes, else scope, else permissions, by JS truthiness
\* (an array, even empty, is truthy; the empty string is falsy)
ExtractScopes(p) ==
    IF p.scopes.has THEN p.scopes.val
    ELSE IF p.scope.has /\ p.scope.val # <<>> THEN Split(p.scope.val)
    ELSE IF p.permissions.has THEN p.permissions.val
    ELSE <<>>

\* messages of the errors jose.jwtVerify and the remote JWKS raise
MsgInvalidJws  == "Invalid Compact JWS"
MsgJwksTimeout == "request timed out"
MsgJwksFetch   == "Expected 200 OK from the JSON Web Key Set HTTP response"
MsgSignature   == "signature verification failed"
MsgMissingIss  == "missing required iss claim"
MsgMissingAud  == "missing required aud claim"
MsgIss         == "unexpected iss claim value"
MsgAud         == "unexpected aud claim value"
MsgExpired     == "exp claim timestamp check failed"

\* outcome of fetching the key set over the network
KeyOutcomes == {"ok", "timeout", "unreachable"}

NoClaims ==
    [ sub |-> "", scopes |-> <<>>, exp |-> 0, iat |-> 0, iss |-> <<>>, aud |-> NoClaim ]
Resolved(c) == [kind |-> "claims", claims |-> c, message |-> <<>>]
Rejected(m) == [kind |-> "error", claims |-> NoClaims, message |-> m]
Pending == [kind |-> "none", claims |-> NoClaims, message |-> <<>>]

\* jwtVerify treating the audience claim as optional
JwtVerify_AudOptional(token, key, issuer, audience, t) ==
    IF ~token.wf THEN MsgInvalidJws
    ELSE IF key = "timeout" THEN MsgJwksTimeout
    ELSE IF key # "ok" THEN MsgJwksFetch
    ELSE IF ~token.sig THEN MsgSignature
    ELSE IF token.iss = NoIss THEN MsgMissingIss
    ELSE IF token.iss # issuer THEN MsgIss
    ELSE IF token.aud # NoClaim /\ token.aud # audience THEN MsgAud
    ELSE IF token.exp # NoExp /\ token.exp <= t THEN MsgExpired
    ELSE ""

\* jose.jwtVerify(token, jwks, {issuer, audience}) at time t, the key fetch
\* ending as `key`: "" when the token verifies, else the error's message.
\* Envelope, key resolution, signature, then the claims: presence of the
\* claims the options name (iss, aud), issuer, audience, then expiry when the
\* payload has one.
JwtVerify(token, key, issuer, audience, t) ==
    IF ~token.wf THEN MsgInvalidJws
    ELSE IF key = "timeout" THEN MsgJwksTimeout
    ELSE IF key # "ok" THEN MsgJwksFetch
    ELSE IF ~token.sig THEN MsgSignature
    ELSE IF token.iss = NoIss THEN MsgMissingIss
    ELSE IF token.aud = NoClaim THEN MsgMissingAud
    ELSE IF token.iss # issuer THEN MsgIss
    ELSE IF token.aud # audience THEN MsgAud
    ELSE IF token.exp # NoExp /\ token.exp <= t THEN MsgExpired
    ELSE ""

\* the TokenClaims validateToken builds from a verified payload
ClaimsOf(token) ==
    [ sub |-> IF token.sub = NoClaim THEN "" ELSE token.sub,
      scopes |-> ExtractScopes(token.sc),
      exp |-> IF token.exp = NoExp THEN 0 ELSE token.exp,
      iat |-> 0, iss |-> token.iss, aud |-> token.aud ]

MockLifetime == 3600
\* mock claims built from the token's unverified payload
getMockClaims_FromPayload(token, t) ==
    [ sub |-> IF token.sub = NoClaim THEN "dev_user_123" ELSE token.sub,
      scopes |-> ExtractScopes(token.sc),
      exp |-> t + MockLifetime, iat |-> t, iss |-> <<"intelliflow-dev">>, aud |-> NoClaim ]

getMockClaims(token, t) ==
    [ sub |-> "dev_user_123",
      scopes |-> <<"email.read", "email.summarize", "calendar.read", "calendar.write">>,
      exp |-> t + MockLifetime, iat |-> t, iss |-> <<"intelliflow-dev">>, aud |-> NoClaim ]

\* validateToken's first branch: mock validation
UseMock(pid, c) == pid = "" \/ c.nodeEnv = "development"

\* validateToken falling back to the unverified payload when no key is at hand
VerifyOutcome_AllowOnOutage(token, key, pid, t) ==
    LET m == JwtVerify(token, key, DescopeUrl(pid), pid, t)
    IN  IF m = "" \/ m \in {MsgJwksTimeout, MsgJwksFetch} THEN Resolved(ClaimsOf(token))
        ELSE Rejected(<<"Token validation failed: ", m>>)

\* validateToken applying its clock tolerance against the token
VerifyOutcome_EarlyExpiry(token, key, pid, t) ==
    LET m == JwtVerify(token, key, DescopeUrl(pid), pid, t + 1)
    IN  IF m = "" THEN Resolved(ClaimsOf(token))
        ELSE Rejected(<<"Token validation failed: ", m>>)

\* the catch block of validateToken logs the error it rewraps
ValidateTokenLogs(token, key, pid, t) ==
    LET m == JwtVerify(token, key, DescopeUrl(pid), pid, t)
    IN  IF m = "" THEN <<>>
        ELSE <<[level |-> "error", msg |-> "Token validation failed", reason |-> <<m>>]>>

\* the verifying path of validateToken once jwtVerify has settled; the catch
\* block rewraps every error
VerifyOutcome(token, key, pid, t) ==
    LET m == JwtVerify(token, key, DescopeUrl(pid), pid, t)
    IN  IF m = "" THEN Resolved(ClaimsOf(token))
        ELSE Rejected(<<"Token validation failed: ", m>>)

(* ---------------- requests ---------------- *)
\* Authorization header: absent, or a scheme prefix followed by the rest
NoHeader == [present |-> FALSE, prefix |-> "", rest |-> MalformedToken]
Prefixes == {"Bearer ", "bearer ", "Basic "}
Headers ==
    {NoHeader}
      \cup [present : {TRUE}, prefix : {"Bearer "}, rest : Tokens]
      \cup [present : {TRUE}, prefix : Prefixes \ {"Bearer "}, rest : {MalformedToken}]

\* routes: the mount point under /api and the router-relative req.path
V1Paths == {"/", "/health", "/api/auth/validate", "/emails", "/calendar", "/other"}
AuthPaths == {"/validate", "/me"}
Routes == [mount : {"/v1"}, path : V1Paths] \cup [mount : {"/auth"}, path : AuthPaths]

\* Paths that don't require authentication
PUBLIC_PATHS == {"/", "/health", "/api/auth/validate", "/api/auth/refresh"}

\* the header check accepting any scheme
HasBearer_AnyScheme(h) == h.present

\* authHeader?.startsWith('Bearer ')
HasBearer(h) == h.present /\ h.prefix = "Bearer "
\* authHeader.substring(7)
BearerToken(h) == h.rest

NoUser == [set |-> FALSE, id |-> "", scopes |-> <<>>]
NoResponse == [status |-> 0, code |-> "", message |-> <<>>]
Response(st, code, msg) == [status |-> st, code |-> code, message |-> msg]

IdleReq ==
    [ st |-> "idle", route |-> [mount |-> "/v1", path |-> "/"], header |-> NoHeader,
      user |-> NoUser, res |-> NoResponse, nextCalled |-> FALSE, vt |-> Pending,
      verified |-> FALSE, keyFailed |-> FALSE, proxied |-> "none", steps |-> <<>>,
      at |-> 0, logs |-> <<>>, rateKey |-> "", nexts |-> 0, sent |-> 0 ]

\* rate limiting (app.use(rateLimitMiddleware), ahead of every route): the
\* address requests come from, and the key the hit is counted under
ClientIp == "10.0.0.1"
\* (req as any).user?.id || req.ip || 'anonymous'
keyGenerator(user, ip) ==
    IF user.set /\ user.id # "" THEN user.id
    ELSE IF ip # "" THEN ip
    ELSE "anonymous"
\* the limiter counts the request under its key and passes it on; the
\* requests followed here stay under the limit of their window
rateLimitMiddleware(q, ip) == [q EXCEPT !.rateKey = keyGenerator(q.user, ip)]

\* a logger call about the request's token: level, message, the reason logged
Log(level, msg, reason) == [level |-> level, msg |-> msg, reason |-> reason]

VARIABLES
    config,     \* the config object, fixed when the module is loaded
    proc,       \* "loading" | "running" | "exited"
    projectId,  \* DescopeService.projectId
    jwks,       \* DescopeService.jwks: "null" or the remote JWKS handle
    now,        \* the wall clock
    req,        \* the request being handled
    sc,         \* one scope list put through validateToken's scope extraction
    reqs,       \* requests handled concurrently by authMiddleware
    keyset,     \* the remote JWKS handle's cache: "none" | "pending" | "silent" | "loaded"
    fetches,    \* network fetches of the key set issued so far
    dg,         \* one delegation: issue at the initiating agent, validation downstream
    cl          \* the frontend API client: one call through its interceptors

vars == <<config, proc, projectId, jwks, now, req, sc, reqs, keyset, fetches, dg, cl>>
\* what the handling of one request leaves alone
aux == <<sc, reqs, keyset, fetches, dg, cl>>

Did(q, step) == \E i \in 1..Len(q.steps) : q.steps[i] = step
Step(q, step) == Append(q.steps, step)

\* the part of validateToken(token) that runs before its first await settles:
\* the mock branch returns at once, the other awaits getJWKS and jwtVerify
ValidateTokenCall(q, pid, c, t) ==
    IF UseMock(pid, c)
    THEN [q EXCEPT !.st = "awaiting",
                   !.vt = Resolved(getMockClaims(BearerToken(q.header), t)),
                   !.at = t,
                   !.logs = Append(q.logs, Log("debug", "Using mock token validation (development mode)", <<>>)),
                   !.steps = Step(q, "validateToken")]
    ELSE [q EXCEPT !.st = "verifying",
                   !.steps = Step(q, "validateToken") \o <<"getJWKS">>]

\* getJWKS creating a remote key set on every call
getJWKS_Recreates(j) == IF j = "null" THEN "handle" ELSE "handle#2"

\* getJWKS: create the remote key set on first use, then reuse it
getJWKS(j) == IF j = "null" THEN "handle" ELSE j

\* the check and response both auth routes and authMiddleware make when the
\* header carries no bearer token
MissingToken(q, msg) ==
    [q EXCEPT !.st = "done", !.res = Response(401, "MISSING_TOKEN", msg),
              !.steps = Step(q, "extract")]

\* the rest of authMiddleware once the path is not public; nexts counts its
\* next() calls, sent the responses it sends itself
AuthMiddlewareProtected(q, pid, c, t) ==
    IF ~HasBearer(q.header)
    THEN [MissingToken(q, <<"Authorization header with Bearer token required">>)
             EXCEPT !.sent = @ + 1]
    ELSE ValidateTokenCall([q EXCEPT !.steps = Step(q, "extract")], pid, c, t)

\* authMiddleware calling next() on a public path without returning
AuthMiddlewareEnter_PublicFallsThrough(q, pid, c, t) ==
    IF q.route.path \in PUBLIC_PATHS
    THEN AuthMiddlewareProtected([q EXCEPT !.nextCalled = TRUE, !.nexts = @ + 1], pid, c, t)
    ELSE AuthMiddlewareProtected(q, pid, c, t)

\* authMiddleware up to `await descopeService.validateToken(token)`
AuthMiddlewareEnter(q, pid, c, t) ==
    IF q.route.path \in PUBLIC_PATHS
    THEN [q EXCEPT !.st = "routing", !.nextCalled = TRUE, !.nexts = @ + 1]
    ELSE AuthMiddlewareProtected(q, pid, c, t)

\* authMiddleware verifying once more after a failure
AuthMiddlewareResume_Retry(q) ==
    IF q.vt.kind = "claims"
    THEN [q EXCEPT !.st = "routing", !.nextCalled = TRUE, !.nexts = @ + 1,
                   !.user = [set |-> TRUE, id |-> q.vt.claims.sub,
                             scopes |-> q.vt.claims.scopes],
                   !.steps = Step(q, "next")]
    ELSE IF Did(q, "jwtVerify") /\ Len(q.steps) < 6
    THEN [q EXCEPT !.st = "verifying"]
    ELSE [q EXCEPT !.st = "done", !.sent = @ + 1,
                   !.res = Response(401, "UNAUTHORIZED", q.vt.message),
                   !.steps = Step(q, "respond")]

\* authMiddleware attaching a guest user when validation fails
AuthMiddlewareResume_GuestOnFailure(q) ==
    IF q.vt.kind = "claims"
    THEN [q EXCEPT !.st = "routing", !.nextCalled = TRUE, !.nexts = @ + 1,
                   !.user = [set |-> TRUE, id |-> q.vt.claims.sub,
                             scopes |-> q.vt.claims.scopes],
                   !.logs = Append(q.logs, Log("debug", "User authenticated", <<>>)),
                   !.steps = Step(q, "next")]
    ELSE [q EXCEPT !.st = "done", !.sent = @ + 1,
                   !.user = [set |-> TRUE, id |-> "guest", scopes |-> <<>>],
                   !.res = Response(401, "UNAUTHORIZED", q.vt.message),
                   !.logs = Append(q.logs, Log("warn", "Authentication failed", q.vt.message)),
                   !.steps = Step(q, "respond")]

\* authMiddleware after validateToken settled: attach the user and call
\* next(), or the catch block's 401
AuthMiddlewareResume(q) ==
    IF q.vt.kind = "claims"
    THEN [q EXCEPT !.st = "routing", !.nextCalled = TRUE, !.nexts = @ + 1,
                   !.user = [set |-> TRUE, id |-> q.vt.claims.sub,
                             scopes |-> q.vt.claims.scopes],
                   !.logs = Append(q.logs, Log("debug", "User authenticated", <<>>)),
                   !.steps = Step(q, "next")]
    ELSE [q EXCEPT !.st = "done", !.sent = @ + 1,
                   !.res = Response(401, "UNAUTHORIZED", q.vt.message),
                   !.logs = Append(q.logs, Log("warn", "Authentication failed", q.vt.message)),
                   !.steps = Step(q, "respond")]

\* validateToken once jose.jwtVerify has settled with the key resolution `key`
JwtVerifySettled(q, key, pid, t) ==
    LET tok == BearerToken(q.header)
        out == VerifyOutcome(tok, key, pid, t)
    IN  [q EXCEPT !.st = "awaiting", !.vt = out,
                  !.verified = (out.kind = "claims"),
                  !.keyFailed = (tok.wf /\ key # "ok"),
                  !.at = t,
                  !.logs = q.logs \o ValidateTokenLogs(tok, key, pid, t),
                  !.steps = Step(q, "jwtVerify")]

\* POST /validate and GET /me up to `await descopeService.validateToken(token)`
AuthRouteEnter(q, pid, c, t) ==
    IF ~HasBearer(q.header)
    THEN MissingToken(q, IF q.route.path = "/validate"
                         THEN <<"Authorization header with Bearer token required">>
                         ELSE <<"Authorization required">>)
    ELSE ValidateTokenCall([q EXCEPT !.steps = Step(q, "extract")], pid, c, t)

\* POST /validate after validateToken settled
ValidateRouteResume(q) ==
    IF q.vt.kind = "claims"
    THEN [q EXCEPT !.st = "done", !.res = Response(200, "valid", <<>>),
                   !.steps = Step(q, "respond")]
    ELSE [q EXCEPT !.st = "done",
                   !.res = Response(401, "INVALID_TOKEN", q.vt.message),
                   !.logs = Append(q.logs, Log("warn", "Token validation failed", q.vt.message)),
                   !.steps = Step(q, "respond")]

\* GET /me after validateToken settled
MeRouteResume(q) ==
    IF q.vt.kind = "claims"
    THEN [q EXCEPT !.st = "done", !.res = Response(200, "user", <<>>),
                   !.steps = Step(q, "respond")]
    ELSE [q EXCEPT !.st = "done",
                   !.res = Response(401, "UNAUTHORIZED", <<"Invalid or expired session">>),
                   !.steps = Step(q, "respond")]

\* a proxy router that sends what no proxy matches to Agent A
ProxyTarget_CatchAll(path) ==
    IF path = "/calendar" THEN "agent-b" ELSE "agent-a"

\* the agent the proxy router forwards a router-relative path to
ProxyTarget(path) ==
    IF path = "/emails" THEN "agent-a"
    ELSE IF path = "/calendar" THEN "agent-b"
    ELSE "none"

\* after router.use(authMiddleware): the two proxies, else the app's 404
\* handler; agentStatus is what the agent (or the proxy's onError) answers
ProxyRoute(q, agentStatus) ==
    IF ProxyTarget(q.route.path) # "none"
    THEN [q EXCEPT !.st = "done", !.proxied = ProxyTarget(q.route.path),
                   !.res = Response(agentStatus,
                                    IF agentStatus = 502 THEN "PROXY_ERROR" ELSE "agent", <<>>),
                   !.steps = Step(q, "proxy")]
    ELSE [q EXCEPT !.st = "done", !.res = Response(404, "NOT_FOUND", <<>>),
                   !.steps = Step(q, "respond")]

(* ---------------- scope extraction on its own ---------------- *)
ScopeNames == {"email.read", "email.summarize", "calendar.write"}
ScopeLists == UNION {[1..n -> ScopeNames] : n \in 0..MaxScopeLen}

\* the list as a space-delimited string
RECURSIVE Join(_)
Join(l) ==
    IF Len(l) = 0 THEN <<>>
    ELSE IF Len(l) = 1 THEN <<l[1]>>
    ELSE <<l[1], " ">> \o Join(Tail(l))

\* the payload carrying the list in each of the three forms
AsScope(l) == [scopes |-> NoArr, scope |-> Str(Join(l)), permissions |-> NoArr]
AsScopes(l) == [scopes |-> Arr(l), scope |-> NoStr, permissions |-> NoArr]
AsPermissions(l) == [scopes |-> NoArr, scope |-> NoStr, permissions |-> Arr(l)]

NoOut == [done |-> FALSE, val |-> <<>>]
Out(v) == [done |-> TRUE, val |-> v]
\* payloads carrying any combination of the three fields
Payloads ==
    [ scopes : {NoArr, Arr(<<>>), Arr(<<"email.read">>), Arr(<<"email.read", "calendar.write">>)},
      scope : {NoStr, Str(<<>>), Str(<<"email.summarize">>),
               Str(<<"calendar.write", " ", "email.read">>)},
      permissions : {NoArr, Arr(<<>>), Arr(<<"calendar.write">>),
                     Arr(<<"email.summarize", "email.read">>)} ]
NoPayload == [scopes |-> NoArr, scope |-> NoStr, permissions |-> NoArr]
ScIdle ==
    [list |-> <<>>, scope |-> NoOut, scopes |-> NoOut, permissions |-> NoOut,
     payload |-> NoPayload, mixed |-> NoOut]

(* ---------------- the frontend API client ---------------- *)
\* sessionStorage.getItem('DS_SESSION_TOKEN'): null, '' or a token
StoredTokens == {NoClaim, "", "session-token"}
\* the endpoints the client calls, and what comes back: a status, or 0 for an
\* error with no response
Endpoints == {"/api/auth/me", "/api/v1/emails"}
Statuses == {0, 200, 400, 401, 403, 404, 500}
NoAuthorization == <<>>
ClIdle ==
    [ st |-> "idle", window |-> TRUE, stored |-> NoClaim, location |-> "/",
      url |-> "", authorization |-> NoAuthorization, status |-> 0,
      promise |-> "none", before |-> "/" ]

\* the request interceptor: read the token in a browser, attach it if truthy
requestInterceptor(c) ==
    LET token == IF c.window THEN c.stored ELSE NoClaim
    IN  IF token # NoClaim /\ token # ""
        THEN [c EXCEPT !.authorization = <<"Bearer ", token>>]
        ELSE c

\* the response interceptor redirecting and then resolving the promise
responseInterceptor_SwallowsAfterRedirect(c, status) ==
    IF status \in 200..299
    THEN [c EXCEPT !.status = status, !.promise = "resolved"]
    ELSE IF status = 401 /\ c.window
    THEN [c EXCEPT !.status = status, !.promise = "resolved", !.location = "/auth/signin"]
    ELSE [c EXCEPT !.status = status, !.promise = "rejected"]

\* the response interceptor: a 2xx response passes; an error redirects to
\* the sign-in page on 401 in a browser and is rejected in every case
responseInterceptor(c, status) ==
    IF status \in 200..299
    THEN [c EXCEPT !.status = status, !.promise = "resolved"]
    ELSE [c EXCEPT !.status = status, !.promise = "rejected",
                   !.location = IF status = 401 /\ c.window THEN "/auth/signin" ELSE @]

(* ---------------- concurrent requests, delegation: idle values ---------------- *)
Calls == 1..MaxCalls

\* delegation between the agents: the scopes of the security model, the
\* initiating agent's target allow-list, the downstream agent's accepted
\* sources and the scopes it takes from each
DelegScopes == ScopeNames \cup {"calendar.read"}
Targets == {"agent-b", "agent-x"}
DelegatableTargets == {"agent-b"}
Sources == {"agent-a", "agent-c"}
AcceptedSources == {"agent-a"}
DelegatableFrom(source) ==
    IF source = "agent-a" THEN {"calendar.read", "calendar.write"} ELSE {}

NoToken ==
    [has |-> FALSE, scopes |-> {}, source |-> "", principal |-> "", sig |-> FALSE,
     expired |-> FALSE]
DelegatedToken(scopes, source, principal, sig, expired) ==
    [has |-> TRUE, scopes |-> scopes, source |-> source, principal |-> principal,
     sig |-> sig, expired |-> expired]
NoDecision == [outcome |-> "", reason |-> ""]
Decision(outcome, reason) == [outcome |-> outcome, reason |-> reason]
DgIdle ==
    [st |-> "idle", orig |-> {}, principal |-> "", target |-> "", requested |-> {},
     error |-> "", token |-> NoToken, presented |-> NoToken, decision |-> NoDecision]
AuxIdle ==
    /\ sc = ScIdle
    /\ reqs = [i \in Calls |-> IdleReq]
    /\ keyset = "none"
    /\ fetches = 0
    /\ dg = DgIdle
    /\ cl = ClIdle

(* ---------------- the state machine ---------------- *)
Init ==
    /\ AuxIdle
    /\ \E ne \in NodeEnvs, pid \in ProjectIds :
          config = Config([NODE_ENV |-> ne, DESCOPE_PROJECT_ID |-> pid])
    /\ proc = "loading"
    /\ projectId = ""
    /\ jwks = "null"
    /\ now = 0
    /\ req = IdleReq

\* module load: config validation (process.exit(1)), then the DescopeService
\* constructor and app.listen
Startup ==
    /\ proc = "loading"
    /\ IF ConfigFatal(config)
       THEN proc' = "exited" /\ UNCHANGED projectId
       ELSE proc' = "running" /\ projectId' = config.descopeProjectId
    /\ UNCHANGED <<config, jwks, now, req>>
    /\ UNCHANGED aux

\* a request reaches the /api router
Arrive ==
    /\ proc = "running"
    /\ req.st = "idle"
    /\ \E r \in Routes, h \in Headers :
          req' = rateLimitMiddleware(
                    [IdleReq EXCEPT !.st = "received", !.route = r, !.header = h], ClientIp)
    /\ UNCHANGED <<config, proc, projectId, jwks, now>>
    /\ UNCHANGED aux

\* jwks after a handler called validateToken: getJWKS ran unless mock
JwksAfterCall(q) == IF Did(q, "getJWKS") THEN getJWKS(jwks) ELSE jwks

\* authMiddleware with a service that substitutes a project id when it has none
AuthMiddleware_DefaultsProjectId ==
    /\ req.st = "received"
    /\ req.route.mount = "/v1"
    /\ req' = AuthMiddlewareEnter(req, projectId, config, now)
    /\ jwks' = IF Did(req', "getJWKS") /\ jwks = "null" THEN "handle" ELSE jwks
    /\ projectId' = IF projectId = "" THEN "demo-project" ELSE projectId
    /\ UNCHANGED <<config, proc, now>>
    /\ UNCHANGED aux

AuthMiddleware ==
    /\ req.st = "received"
    /\ req.route.mount = "/v1"
    /\ req' = AuthMiddlewareEnter(req, projectId, config, now)
    /\ jwks' = JwksAfterCall(req')
    /\ UNCHANGED <<config, proc, projectId, now>>
    /\ UNCHANGED aux

AuthRoute ==
    /\ req.st = "received"
    /\ req.route.mount = "/auth"
    /\ req' = AuthRouteEnter(req, projectId, config, now)
    /\ jwks' = JwksAfterCall(req')
    /\ UNCHANGED <<config, proc, projectId, now>>
    /\ UNCHANGED aux

\* jose.jwtVerify settles: the key fetch ends one way or another
JwtVerifySettles ==
    /\ req.st = "verifying"
    /\ \E key \in KeyOutcomes : req' = JwtVerifySettled(req, key, projectId, now)
    /\ UNCHANGED <<config, proc, projectId, jwks, now>>
    /\ UNCHANGED aux

AuthMiddlewareContinues ==
    /\ req.st = "awaiting"
    /\ req.route.mount = "/v1"
    /\ req' = AuthMiddlewareResume(req)
    /\ UNCHANGED <<config, proc, projectId, jwks, now>>
    /\ UNCHANGED aux

AuthRouteContinues ==
    /\ req.st = "awaiting"
    /\ req.route.mount = "/auth"
    /\ req' = IF req.route.path = "/validate"
              THEN ValidateRouteResume(req) ELSE MeRouteResume(req)
    /\ UNCHANGED <<config, proc, projectId, jwks, now>>
    /\ UNCHANGED aux

Proxy ==
    /\ req.st = "routing"
    /\ \E agentStatus \in {200, 502} : req' = ProxyRoute(req, agentStatus)
    /\ UNCHANGED <<config, proc, projectId, jwks, now>>
    /\ UNCHANGED aux

\* the response is out; the next request can be looked at
Finish ==
    /\ req.st = "done"
    /\ req' = IdleReq
    /\ UNCHANGED <<config, proc, projectId, jwks, now>>
    /\ UNCHANGED aux

Tick ==
    /\ now < MaxNow
    /\ now' = now + 1
    /\ UNCHANGED <<config, proc, projectId, jwks, req>>
    /\ UNCHANGED aux

Next ==
    \/ Startup
    \/ Arrive
    \/ AuthMiddleware
    \/ AuthRoute
    \/ JwtVerifySettles
    \/ AuthMiddlewareContinues
    \/ AuthRouteContinues
    \/ Proxy
    \/ Finish
    \/ Tick

Spec == Init /\ [][Next]_vars

(* ---------------- scope extraction: one list, three payload forms ---------------- *)
\* the gateway itself at rest
MainIdle ==
    /\ config = Config([NODE_ENV |-> "production", DESCOPE_PROJECT_ID |-> "P1"])
    /\ proc = "running"
    /\ projectId = "P1"
    /\ jwks = "null"
    /\ now = 0
    /\ req = IdleReq

InitScopes ==
    /\ MainIdle
    /\ \E l \in ScopeLists : sc = [ScIdle EXCEPT !.list = l]
    /\ reqs = [i \in Calls |-> IdleReq]
    /\ keyset = "none"
    /\ fetches = 0
    /\ dg = DgIdle
    /\ cl = ClIdle

\* validateToken's scope extraction on a payload with a `scope` string
FromScopeString ==
    /\ ~sc.scope.done
    /\ sc' = [sc EXCEPT !.scope = Out(ExtractScopes(AsScope(sc.list)))]
    /\ UNCHANGED <<config, proc, projectId, jwks, now, req, reqs, keyset, fetches, dg, cl>>

\* ... with a `scopes` array
FromScopesArray ==
    /\ ~sc.scopes.done
    /\ sc' = [sc EXCEPT !.scopes = Out(ExtractScopes(AsScopes(sc.list)))]
    /\ UNCHANGED <<config, proc, projectId, jwks, now, req, reqs, keyset, fetches, dg, cl>>

\* ... with a `permissions` array
FromPermissions ==
    /\ ~sc.permissions.done
    /\ sc' = [sc EXCEPT !.permissions = Out(ExtractScopes(AsPermissions(sc.list)))]
    /\ UNCHANGED <<config, proc, projectId, jwks, now, req, reqs, keyset, fetches, dg, cl>>

NextScopes == FromScopeString \/ FromScopesArray \/ FromPermissions

SpecScopes == InitScopes /\ [][NextScopes]_vars

(* ---------------- scope extraction: payloads with several fields ---------------- *)
InitPayload ==
    /\ MainIdle
    /\ \E p \in Payloads : sc = [ScIdle EXCEPT !.payload = p]
    /\ reqs = [i \in Calls |-> IdleReq]
    /\ keyset = "none"
    /\ fetches = 0
    /\ dg = DgIdle
    /\ cl = ClIdle

\* validateToken's scope extraction on the verified payload
ExtractFromPayload ==
    /\ ~sc.mixed.done
    /\ sc' = [sc EXCEPT !.mixed = Out(ExtractScopes(sc.payload))]
    /\ UNCHANGED <<config, proc, projectId, jwks, now, req, reqs, keyset, fetches, dg, cl>>

NextPayload == ExtractFromPayload

SpecPayload == InitPayload /\ [][NextPayload]_vars

(* ---------------- the frontend API client: one call after another ---------------- *)
\* in a browser with whatever the session storage holds, or on the server
\* where there is neither window nor session storage
InitClient ==
    /\ MainIdle
    /\ sc = ScIdle
    /\ reqs = [i \in Calls |-> IdleReq]
    /\ keyset = "none"
    /\ fetches = 0
    /\ dg = DgIdle
    /\ \/ \E t \in StoredTokens : cl = [ClIdle EXCEPT !.stored = t]
       \/ cl = [ClIdle EXCEPT !.window = FALSE, !.location = ""]

\* api.get / api.post ...: the request goes through the request interceptor
ClientRequest ==
    /\ cl.st = "idle"
    /\ \E url \in Endpoints :
          cl' = [requestInterceptor([cl EXCEPT !.url = url]) EXCEPT
                    !.st = "sent", !.before = cl.location]
    /\ UNCHANGED <<config, proc, projectId, jwks, now, req, sc, reqs, keyset, fetches, dg>>

\* the gateway answers, or the call fails without an answer
ClientResponse ==
    /\ cl.st = "sent"
    /\ \E status \in Statuses : cl' = [responseInterceptor(cl, status) EXCEPT !.st = "settled"]
    /\ UNCHANGED <<config, proc, projectId, jwks, now, req, sc, reqs, keyset, fetches, dg>>

\* the caller has its result; the next call starts from the page it is on
ClientNext ==
    /\ cl.st = "settled"
    /\ cl' = [ClIdle EXCEPT !.window = cl.window, !.stored = cl.stored,
                            !.location = cl.location, !.before = cl.location]
    /\ UNCHANGED <<config, proc, projectId, jwks, now, req, sc, reqs, keyset, fetches, dg>>

NextClient == ClientRequest \/ ClientResponse \/ ClientNext

SpecClient == InitClient /\ [][NextClient]_vars

(* ---------------- concurrent requests sharing the remote key set ---------------- *)
\* the tokens the concurrent requests carry
GoodToken(e) ==
    [ wf |-> TRUE, sig |-> TRUE, iss |-> DescopeUrl("P1"), aud |-> "P1", exp |-> e,
      sub |-> "user_1",
      sc |-> [scopes |-> Arr(<<"email.read", "email.summarize">>), scope |-> NoStr,
              permissions |-> NoArr] ]
\* (the good one expires at the last tick of the clock)
ConcTokens == {GoodToken(MaxNow), [GoodToken(MaxNow) EXCEPT !.sig = FALSE], MalformedToken}

InitConc ==
    /\ \E ne \in {"production", "development"} :
          config = Config([NODE_ENV |-> ne, DESCOPE_PROJECT_ID |-> "P1"])
    /\ proc = "running"
    /\ projectId = "P1"
    /\ jwks = "null"
    /\ now = 0
    /\ req = IdleReq
    /\ AuxIdle

\* the remote key set asked for a key with a fetch that joins no fetch in flight
StartsFetch_NoJoin(ks) == ks # "loaded"

\* the remote key set asked for a key: it fetches only when it holds no key
\* set and no fetch is in flight; callers meanwhile await the pending fetch
StartsFetch(ks) == ks = "none"

\* the request awaits the key set inside jwtVerify
Waiting(q) == q.st = "verifying" /\ Did(q, "getKey")

\* every waiter of the fetch resumes with its outcome
Resume(key) ==
    [i \in Calls |-> IF Waiting(reqs[i])
                     THEN JwtVerifySettled(reqs[i], key, projectId, now)
                     ELSE reqs[i]]

\* a request for /api/v1/emails reaches the router
ConcArrive(i) ==
    /\ reqs[i].st = "idle"
    /\ \E tok \in ConcTokens :
          reqs' = [reqs EXCEPT ![i] =
                     rateLimitMiddleware(
                        [IdleReq EXCEPT !.st = "received",
                                        !.route = [mount |-> "/v1", path |-> "/emails"],
                                        !.header = [present |-> TRUE, prefix |-> "Bearer ",
                                                    rest |-> tok]], ClientIp)]
    /\ UNCHANGED <<config, proc, projectId, jwks, now, req, sc, keyset, fetches, dg, cl>>

ConcAuthMiddleware(i) ==
    /\ reqs[i].st = "received"
    /\ reqs' = [reqs EXCEPT ![i] = AuthMiddlewareEnter(reqs[i], projectId, config, now)]
    /\ jwks' = IF Did(reqs'[i], "getJWKS") THEN getJWKS(jwks) ELSE jwks
    /\ UNCHANGED <<config, proc, projectId, now, req, sc, keyset, fetches, dg, cl>>

\* jwtVerify decodes the token and asks the remote key set for its key
GetKey(i) ==
    /\ reqs[i].st = "verifying"
    /\ ~Did(reqs[i], "getKey")
    /\ LET q == reqs[i] IN
       IF ~BearerToken(q.header).wf
       THEN /\ reqs' = [reqs EXCEPT ![i] = JwtVerifySettled(q, "ok", projectId, now)]
            /\ UNCHANGED <<keyset, fetches>>
       ELSE IF keyset = "loaded"
       THEN /\ reqs' = [reqs EXCEPT ![i] =
                          JwtVerifySettled([q EXCEPT !.steps = Step(q, "cachedKey")],
                                           "ok", projectId, now)]
            /\ UNCHANGED <<keyset, fetches>>
       ELSE IF StartsFetch(keyset)
       THEN /\ reqs' = [reqs EXCEPT ![i].steps = Step(q, "getKey") \o <<"fetch">>]
            /\ keyset' \in {"pending", "silent"}
            /\ fetches' = fetches + 1
       ELSE /\ reqs' = [reqs EXCEPT ![i].steps = Step(q, "getKey")]
            /\ UNCHANGED <<keyset, fetches>>
    /\ UNCHANGED <<config, proc, projectId, jwks, now, req, sc, dg, cl>>

\* the identity provider answers the fetch, or the connection fails
FetchResolves ==
    /\ keyset = "pending"
    /\ \E key \in {"ok", "unreachable"} :
          /\ keyset' = IF key = "ok" THEN "loaded" ELSE "none"
          /\ reqs' = Resume(key)
    /\ UNCHANGED <<config, proc, projectId, jwks, now, req, sc, fetches, dg, cl>>

\* a remote key set created with no timeout
FetchAbandoned_NoTimeout ==
    /\ keyset = "silent"
    /\ UNCHANGED vars

\* no answer within the remote key set's timeout: the fetch is aborted
FetchAbandoned ==
    /\ keyset = "silent"
    /\ keyset' = "none"
    /\ reqs' = Resume("timeout")
    /\ UNCHANGED <<config, proc, projectId, jwks, now, req, sc, fetches, dg, cl>>

ConcContinues(i) ==
    /\ reqs[i].st = "awaiting"
    /\ reqs' = [reqs EXCEPT ![i] = AuthMiddlewareResume(reqs[i])]
    /\ UNCHANGED <<config, proc, projectId, jwks, now, req, sc, keyset, fetches, dg, cl>>

NextConc ==
    \/ \E i \in Calls : ConcArrive(i)
    \/ \E i \in Calls : ConcAuthMiddleware(i)
    \/ \E i \in Calls : GetKey(i)
    \/ FetchResolves
    \/ FetchAbandoned
    \/ \E i \in Calls : ConcContinues(i)
    \/ Tick

SpecConc == InitConc /\ [][NextConc]_vars

\* the same requests with the clock left out: no step of a request waits for
\* it, the one timer involved is FetchAbandoned
NextFair ==
    \/ \E i \in Calls : ConcArrive(i)
    \/ \E i \in Calls : ConcAuthMiddleware(i)
    \/ \E i \in Calls : GetKey(i)
    \/ FetchResolves
    \/ FetchAbandoned
    \/ \E i \in Calls : ConcContinues(i)

\* the event loop runs every ready continuation, the network answers a fetch
\* it is going to answer, and the timeout timer fires
FairConc ==
    /\ InitConc /\ [][NextFair]_vars
    /\ \A i \in Calls : WF_vars(ConcAuthMiddleware(i))
    /\ \A i \in Calls : WF_vars(GetKey(i))
    /\ \A i \in Calls : WF_vars(ConcContinues(i))
    /\ WF_vars(FetchResolves)
    /\ WF_vars(FetchAbandoned)

(* ---------------- delegation: issuer and validator ---------------- *)
\* issue_delegated that leaves the scope check to the identity provider
issue_delegated_NoScopeCheck(self, orig, principal, target, requested, provider) ==
    IF target \notin DelegatableTargets
    THEN [error |-> "target_not_allowed", token |-> NoToken]
    ELSE IF provider # "ok"
    THEN [error |-> "provider_error", token |-> NoToken]
    ELSE [error |-> "",
          token |-> DelegatedToken(requested, self, principal, TRUE, FALSE)]

\* issue_delegated(original_assertion, target_agent, requested_scopes) by the
\* agent `self`; provider is the identity provider's answer
issue_delegated(self, orig, principal, target, requested, provider) ==
    IF ~(requested \subseteq orig)
    THEN [error |-> "scope_not_held", token |-> NoToken]
    ELSE IF target \notin DelegatableTargets
    THEN [error |-> "target_not_allowed", token |-> NoToken]
    ELSE IF provider # "ok"
    THEN [error |-> "provider_error", token |-> NoToken]
    ELSE [error |-> "",
          token |-> DelegatedToken(requested, self, principal, TRUE, FALSE)]

\* validate_delegation that takes any source it has no scope table for
validate_delegation_DefaultAllow(a) ==
    IF a.source \in AcceptedSources /\ ~(a.scopes \subseteq DelegatableFrom(a.source))
    THEN Decision("deny", "scope_not_permitted")
    ELSE IF a.principal = "" THEN Decision("deny", "missing_principal")
    ELSE Decision("allow", "")

\* validate_delegation(assertion): the three checks, in order
validate_delegation(a) ==
    IF a.source \notin AcceptedSources THEN Decision("deny", "untrusted_source")
    ELSE IF ~(a.scopes \subseteq DelegatableFrom(a.source))
    THEN Decision("deny", "scope_not_permitted")
    ELSE IF a.principal = "" THEN Decision("deny", "missing_principal")
    ELSE Decision("allow", "")

\* the downstream agent's Token Verifier, then its Delegation Validator
Downstream(tok) ==
    IF ~tok.sig THEN Decision("deny", "bad_signature")
    ELSE IF tok.expired THEN Decision("deny", "expired")
    ELSE validate_delegation(tok)

InitDeleg ==
    /\ MainIdle
    /\ sc = ScIdle
    /\ reqs = [i \in Calls |-> IdleReq]
    /\ keyset = "none"
    /\ fetches = 0
    /\ cl = ClIdle
    /\ \E orig \in SUBSET DelegScopes, requested \in SUBSET DelegScopes, target \in Targets :
          dg = [DgIdle EXCEPT !.st = "requested", !.orig = orig, !.principal = "user_1",
                              !.target = target, !.requested = requested]

\* Agent A asks for a delegated token
IssueDelegated ==
    /\ dg.st = "requested"
    /\ \E provider \in {"ok", "error"} :
          LET r == issue_delegated("agent-a", dg.orig, dg.principal, dg.target,
                                   dg.requested, provider)
          IN  dg' = [dg EXCEPT !.st = "issued", !.error = r.error, !.token = r.token]
    /\ UNCHANGED <<config, proc, projectId, jwks, now, req, sc, reqs, keyset, fetches, cl>>

\* the issued token reaches the downstream agent, in time or after its expiry
PresentIssued ==
    /\ dg.st = "issued"
    /\ dg.token.has
    /\ \E expired \in BOOLEAN :
          dg' = [dg EXCEPT !.st = "presented",
                           !.presented = [dg.token EXCEPT !.expired = expired]]
    /\ UNCHANGED <<config, proc, projectId, jwks, now, req, sc, reqs, keyset, fetches, cl>>

\* some other delegated token reaches the downstream agent
PresentOther ==
    /\ dg.st = "issued"
    /\ \E source \in Sources, principal \in {"user_1", ""}, sig \in BOOLEAN, expired \in BOOLEAN :
          dg' = [dg EXCEPT !.st = "presented",
                           !.presented = DelegatedToken(dg.requested, source, principal,
                                                        sig, expired)]
    /\ UNCHANGED <<config, proc, projectId, jwks, now, req, sc, reqs, keyset, fetches, cl>>

\* Agent B decides
ValidateDelegation ==
    /\ dg.st = "presented"
    /\ dg' = [dg EXCEPT !.st = "decided", !.decision = Downstream(dg.presented)]
    /\ UNCHANGED <<config, proc, projectId, jwks, now, req, sc, reqs, keyset, fetches, cl>>

NextDeleg == IssueDelegated \/ PresentIssued \/ PresentOther \/ ValidateDelegation

SpecDeleg == InitDeleg /\ [][NextDeleg]_vars

(* ======================= claims ======================= *)
\* the request's Authorization header uses the Bearer scheme
BearerScheme == req.header.present /\ req.header.prefix = "Bearer "
\* the bearer token of the request being handled
Tok == req.header.rest
\* validateToken has settled for the request
Settled == req.vt.kind # "none"
\* the gateway accepted the request's token: authMiddleware attached the user
\* and called next(), or an auth route answered 200
Accepted ==
    \/ req.nextCalled /\ req.user.set
    \/ req.route.mount = "/auth" /\ req.res.status = 200
\* what validateToken throws for the jose error message m
Failure(m) == <<"Token validation failed: ", m>>
\* the request needs a credential: an auth route, or a non-public proxy path
Protected == req.route.mount = "/auth" \/ req.route.path \notin PUBLIC_PATHS

\* C1: with a posture other than 'development' and no project id the process
\* exits at startup, and validateToken never serves a request.
C1_UnsetIssuerIsFatal ==
    (config.nodeEnv # "development" /\ config.descopeProjectId = "")
        => (proc # "running" /\ ~Did(req, "validateToken"))

\* C2: every accepted request's token passed jwtVerify against the JWKS.
C2_AcceptedWasVerified == Accepted => req.verified

\* C3: a well-formed token whose expiry is at or before the time of the call
\* is rejected by validateToken with the reason 'expired', whatever its
\* signature.
C3_ExpiredRejectedAsExpired ==
    (BearerScheme /\ Settled /\ Tok.wf /\ Tok.exp # NoExp /\ Tok.exp <= req.at)
        => (req.vt.kind = "error" /\ req.vt.message = Failure(MsgExpired))

\* C4: with a trusted issuer configured, a well-formed token of another issuer
\* is rejected by validateToken for its issuer, and its request is never
\* accepted.
C4_UntrustedIssuerRejected ==
    (BearerScheme /\ Settled /\ projectId # "" /\ Tok.wf /\ Tok.iss # DescopeUrl(projectId))
        => (req.vt.kind = "error" /\ req.vt.message = Failure(MsgIss) /\ ~Accepted)

\* a token that passes every check of jwtVerify but the audience one, the
\* key set being available
ValidButAudience ==
    /\ Did(req, "jwtVerify") /\ ~req.keyFailed
    /\ Tok.wf /\ Tok.sig /\ Tok.iss = DescopeUrl(projectId)
    /\ Tok.exp # NoExp /\ Tok.exp > req.at

C6_KeyFailureDenies ==
    req.keyFailed =>
        /\ req.vt.kind = "error"
        /\ ~Accepted /\ ~req.nextCalled /\ req.proxied = "none"
        /\ req.st = "done" => req.res.status = 401
C6_Witness == req.keyFailed /\ req.st = "done" /\ req.res.status = 401

\* C7: a protected request without a Bearer header is answered MISSING_TOKEN
\* without validateToken being invoked, and no verification failure is ever
\* answered MISSING_TOKEN.
C7_MissingCredentialFirst ==
    /\ (req.st \notin {"idle", "received"} /\ Protected /\ ~BearerScheme)
          => /\ req.st = "done"
             /\ req.res.status = 401 /\ req.res.code = "MISSING_TOKEN"
             /\ ~Did(req, "validateToken") /\ ~Settled
    /\ req.res.code = "MISSING_TOKEN" => ~Did(req, "validateToken")
    /\ (req.st = "done" /\ req.vt.kind = "error")
          => req.res.code \in {"UNAUTHORIZED", "INVALID_TOKEN"}
C7_Witness ==
    /\ req.st = "done" /\ Protected /\ req.header.present /\ ~BearerScheme
    /\ req.res.code = "MISSING_TOKEN"

\* C8: a key-fetch failure is answered with a 5xx status, and 401 is kept
\* for decode and verification failures.
C8_KeyFailureIs5xx ==
    (req.st = "done" /\ req.keyFailed) => (req.res.status >= 500 /\ req.res.status # 401)

\* the orders in which authMiddleware's steps can run
Pipelines ==
    { <<"extract">>,
      <<"extract", "validateToken", "next", "proxy">>,
      <<"extract", "validateToken", "next", "respond">>,
      <<"extract", "validateToken", "getJWKS", "jwtVerify", "next", "proxy">>,
      <<"extract", "validateToken", "getJWKS", "jwtVerify", "next", "respond">>,
      <<"extract", "validateToken", "getJWKS", "jwtVerify", "respond">>,
      <<"proxy">>, <<"respond">> }
IsPrefix(a, b) == Len(a) <= Len(b) /\ SubSeq(b, 1, Len(a)) = a
NoRepeat(s) == \A i, j \in 1..Len(s) : s[i] = s[j] => i = j
\* authMiddleware denied the request
Denied == req.route.mount = "/v1" /\ req.res.status = 401

\* C9: under authMiddleware a request only moves forward: no step runs
\* twice, a failed step ends the request as denied with that step's reason,
\* and once denied no further step runs for it.
C9_ForwardOnly ==
    /\ [](req.route.mount = "/v1" =>
            /\ NoRepeat(req.steps)
            /\ \E p \in Pipelines : IsPrefix(req.steps, p)
            /\ Denied =>
                  /\ req.st = "done" /\ ~req.nextCalled /\ req.proxied = "none"
                  /\ \/ req.steps = <<"extract">> /\ req.res.code = "MISSING_TOKEN"
                     \/ /\ req.steps[Len(req.steps) - 1] = "jwtVerify"
                        /\ req.vt.kind = "error"
                        /\ req.res.code = "UNAUTHORIZED"
                        /\ req.res.message = req.vt.message)
    /\ [][Denied => req' \in {req, IdleReq}]_vars
C9_Witness ==
    /\ Denied /\ req.vt.kind = "error"
    /\ req.steps = <<"extract", "validateToken", "getJWKS", "jwtVerify", "respond">>

\* the scopes an operation requires, per the API documentation
RequiredScopes(path) ==
    IF path = "/emails" THEN {"email.read", "email.summarize"}
    ELSE IF path = "/calendar" THEN {"calendar.write"}
    ELSE {}
\* the scope hierarchy table: no scope implies another
Implies(s, r) == s = r
Holds(scopes, r) == \E i \in 1..Len(scopes) : Implies(scopes[i], r)

\* C10: a request is forwarded to an agent only if the verified token holds
\* every scope the operation requires.
C10_ForwardedOnlyWithScopes ==
    req.proxied # "none"
        => \A r \in RequiredScopes(req.route.path) : Holds(req.user.scopes, r)

\* C12: verification rejects a token whose payload lacks subject, issuer or
\* expiry, and no accepted request has an empty principal id or a zero
\* expiry.
C12_RequiredClaims ==
    /\ (Did(req, "jwtVerify") /\ Settled /\ Tok.wf
            /\ (Tok.sub = NoClaim \/ Tok.iss = NoIss \/ Tok.exp = NoExp))
          => req.vt.kind = "error"
    /\ (req.nextCalled /\ req.user.set) => req.user.id # ""
    /\ Accepted => (req.vt.claims.sub # "" /\ req.vt.claims.exp # 0)

Range(q) == {q[i] : i \in 1..Len(q)}

\* C11: the three forms of one scope list yield the same scope set from
\* validateToken, and the result holds no scope twice.
C11_SameSetNoDuplicates ==
    (sc.scope.done /\ sc.scopes.done /\ sc.permissions.done) =>
        /\ Range(sc.scope.val) = Range(sc.scopes.val)
        /\ Range(sc.scopes.val) = Range(sc.permissions.val)
        /\ NoRepeat(sc.scope.val) /\ NoRepeat(sc.scopes.val) /\ NoRepeat(sc.permissions.val)

\* the log records that state a decision about the request's token
IsDecision(l) == l.msg # "Using mock token validation (development mode)"
Audit == SelectSeq(req.logs, IsDecision)

\* C16: a handler that called validateToken leaves exactly one audit record
\* for the call, which carries the reason when the token was rejected.
C16_OneAuditRecord ==
    (Settled /\ req.st \in {"routing", "done"}) =>
        /\ Len(Audit) = 1
        /\ req.vt.kind = "error" => Audit[1].reason # <<>>

\* C19: the configuration is fixed from module load on, the service's
\* project id from startup on: no request-handling step changes either, and
\* every validateToken call of a running process uses the configured one.
C19_ConfigurationFixed ==
    /\ [](proc = "running" => projectId = config.descopeProjectId)
    /\ [][config' = config /\ (proc = "running" => projectId' = projectId)]_vars
C19_Witness ==
    /\ proc = "running" /\ req.st = "done" /\ Did(req, "validateToken")
    /\ projectId = "P1"

\* C20: a request is proxied to an agent only after validateToken returned
\* claims for its bearer token, and no path authMiddleware treats as public
\* is proxied.
C20_ProxiedOnlyAfterValidation ==
    /\ req.proxied # "none" =>
          /\ BearerScheme /\ Did(req, "validateToken")
          /\ req.vt.kind = "claims" /\ req.user.set
    /\ (req.route.mount = "/v1" /\ req.route.path \in PUBLIC_PATHS) => req.proxied = "none"
C20_Witness ==
    /\ req.proxied = "agent-b" /\ req.vt.kind = "claims" /\ req.verified

(* ---- claims about concurrent requests ---- *)
\* validateToken has settled for call i
ConcSettled(i) == reqs[i].vt.kind # "none"
\* the token of call i is one validateToken accepts at the time it settled,
\* given its key
ConcValid(i) ==
    \/ UseMock(projectId, config)
    \/ LET tok == reqs[i].header.rest
       IN  /\ tok.wf /\ tok.sig /\ tok.iss = DescopeUrl(projectId) /\ tok.aud = projectId
           /\ tok.exp # NoExp /\ tok.exp > reqs[i].at
\* two calls ended alike: same outcome, same principal, same scope set
SameOutcome(i, j) ==
    /\ reqs[i].vt.kind = reqs[j].vt.kind
    /\ reqs[i].vt.kind = "claims" =>
          /\ reqs[i].vt.claims.sub = reqs[j].vt.claims.sub
          /\ Range(reqs[i].vt.claims.scopes) = Range(reqs[j].vt.claims.scopes)
\* no step changes the token a request carries
TokenUntouched ==
    \A i \in Calls : reqs[i].st # "idle" => reqs'[i].header = reqs[i].header

\* C13 as stated: any two settled verifications of the same still-valid token
\* ended alike, whatever the interleaving, and no step changed the token.
C13_SameOutcomeEveryTime ==
    /\ [](\A i, j \in Calls :
            (/\ ConcSettled(i) /\ ConcSettled(j)
             /\ reqs[i].header = reqs[j].header
             /\ ConcValid(i) /\ ConcValid(j)) => SameOutcome(i, j))
    /\ [][TokenUntouched]_vars

\* C13: any two settled verifications of the same still-valid token whose key
\* resolution did not fail ended alike (same outcome, principal and scope
\* set), whatever the interleaving, and no step changed the token.
C13_SameOutcomeOnceKeysResolve ==
    /\ [](\A i, j \in Calls :
            (/\ ConcSettled(i) /\ ConcSettled(j)
             /\ reqs[i].header = reqs[j].header
             /\ ConcValid(i) /\ ConcValid(j)
             /\ ~reqs[i].keyFailed /\ ~reqs[j].keyFailed) => SameOutcome(i, j))
    /\ [][TokenUntouched]_vars
C13_Witness ==
    /\ ~UseMock(projectId, config)
    /\ reqs[1].header = reqs[2].header
    /\ reqs[1].vt.kind = "claims" /\ reqs[2].vt.kind = "claims"
    /\ reqs[1].at # reqs[2].at
    /\ Did(reqs[1], "fetch") /\ Did(reqs[2], "cachedKey")

\* C14: while a key fetch is in flight exactly one of the requests awaiting
\* the key set issued it, a fetch is issued only when no key set is cached and
\* none is in flight, and when the fetch brings the key set every request
\* awaiting it finishes verification without a key failure, accepted tokens
\* with their claims.
C14_SingleFlight ==
    /\ [](/\ keyset \in {"pending", "silent"} =>
               Cardinality({i \in Calls : Waiting(reqs[i]) /\ Did(reqs[i], "fetch")}) = 1
          /\ keyset \in {"none", "loaded"} => \A i \in Calls : ~Waiting(reqs[i]))
    /\ [][fetches' # fetches => (fetches' = fetches + 1 /\ keyset = "none")]_vars
    /\ [][(keyset = "pending" /\ keyset' = "loaded") =>
            \A i \in Calls : Waiting(reqs[i]) =>
                /\ reqs'[i].st = "awaiting" /\ ~reqs'[i].keyFailed
                /\ LET tok == reqs[i].header.rest
                   IN  (tok.sig /\ tok.exp > now) => reqs'[i].vt.kind = "claims"]_vars
C14_Witness ==
    /\ fetches = 1 /\ keyset = "loaded"
    /\ \A i \in Calls : Did(reqs[i], "getKey") /\ reqs[i].vt.kind = "claims"
    /\ Cardinality({i \in Calls : Did(reqs[i], "fetch")}) = 1

\* C15: every request that entered authMiddleware is eventually passed on or
\* answered, its verification having settled on the way if one began, also
\* when the key fetch gets no answer.
C15_EveryRequestEnds ==
    \A i \in Calls :
        (reqs[i].st = "received") ~>
            /\ reqs[i].nextCalled \/ reqs[i].res.status # 0
            /\ Did(reqs[i], "validateToken") => ConcSettled(i)
C15_Witness ==
    /\ \E i \in Calls :
          /\ Did(reqs[i], "fetch") /\ reqs[i].keyFailed
          /\ reqs[i].vt.kind = "error"
          /\ reqs[i].vt.message = Failure(MsgJwksTimeout)
          /\ reqs[i].res.status = 401

(* ---- claims about delegation ---- *)
\* C17: every delegated token carries a subset of the scopes of the assertion
\* that asked for it, and a request naming a scope that assertion does not
\* hold fails with scope_not_held and yields no token.
C17_DelegatedScopesHeld ==
    dg.st \in {"issued", "presented", "decided"} =>
        /\ dg.token.has => dg.token.scopes \subseteq dg.orig
        /\ ~(dg.requested \subseteq dg.orig) =>
              (dg.error = "scope_not_held" /\ ~dg.token.has)
C17_Witness ==
    /\ dg.st = "issued" /\ dg.error = "scope_not_held"
    /\ dg.target \in DelegatableTargets
    /\ dg.orig = {"email.read", "calendar.write"}
    /\ dg.requested = {"calendar.write", "calendar.read"}

\* C18: a delegated token whose source the downstream agent does not accept
\* is denied, with untrusted_source whenever its signature and expiry are
\* valid; nothing about the token makes up for the missing source.
C18_UnacceptedSourceDenied ==
    (dg.st = "decided" /\ dg.presented.source \notin AcceptedSources) =>
        /\ dg.decision.outcome = "deny"
        /\ (dg.presented.sig /\ ~dg.presented.expired) =>
              dg.decision.reason = "untrusted_source"
C18_Witness ==
    /\ dg.st = "decided" /\ dg.presented.source = "agent-c"
    /\ dg.presented.sig /\ ~dg.presented.expired
    /\ dg.presented.principal # ""
    /\ dg.presented.scopes = {"calendar.write"}
    /\ dg.decision = Decision("deny", "untrusted_source")

(* ---- claims about the middleware chain ---- *)
\* C21: a request whose token validateToken verified was counted by the rate
\* limiter under the user's id, and only requests that were never
\* authenticated were counted under the client address.
C21_CountedUnderUserId ==
    (req.st \in {"routing", "done"} /\ req.route.mount = "/v1") =>
        /\ (req.verified /\ req.user.set /\ req.user.id # "") => req.rateKey = req.user.id
        /\ req.rateKey = ClientIp => ~req.verified

\* authMiddleware has finished with the request
ThroughAuthMiddleware == req.route.mount = "/v1" /\ req.st \in {"routing", "done"}

\* C22: authMiddleware, once finished with a request, has either called
\* next() once and sent nothing, or sent one 401 and not called next(); until
\* then it has done neither, and it never does both.
C22_NextOrOne401 ==
    req.route.mount = "/v1" =>
        /\ req.nexts + req.sent <= 1
        /\ ThroughAuthMiddleware <=> req.nexts + req.sent = 1
        /\ req.nexts = 1 <=> req.nextCalled
        /\ req.sent = 1 => (req.res.status = 401 /\ req.st = "done" /\ req.proxied = "none")
        /\ (req.nexts = 1 /\ req.st = "routing") => req.res = NoResponse
C22_Witness ==
    /\ req.route = [mount |-> "/v1", path |-> "/"]
    /\ req.header = NoHeader
    /\ req.st = "routing" /\ req.nexts = 1 /\ req.sent = 0 /\ req.res = NoResponse

\* C23: req.user is set only by authMiddleware after validateToken returned
\* claims, to their sub and scopes; the public-path branch, the
\* missing-credential branch and the failure branch leave it as it was.
C23_UserOnlyFromClaims ==
    /\ [](req.route.mount = "/v1" =>
            /\ req.user.set =>
                  /\ req.vt.kind = "claims" /\ Did(req, "validateToken")
                  /\ req.user.id = req.vt.claims.sub
                  /\ req.user.scopes = req.vt.claims.scopes
            /\ (ThroughAuthMiddleware /\ req.vt.kind # "claims") => req.user = NoUser)
    /\ [][(req.route.mount = "/v1" /\ req'.user # req.user) =>
            \/ req.st = "awaiting" /\ req.vt.kind = "claims" /\ req'.user.set
            \/ req' = IdleReq]_vars
C23_Witness ==
    /\ req.route.mount = "/v1" /\ req.st = "routing" /\ req.verified
    /\ req.user = [set |-> TRUE, id |-> "user_1",
                   scopes |-> <<"calendar.read", "calendar.write">>]

\* the request matches no route: under /api/v1 neither proxy is mounted on its path
MatchesNoRoute == req.route.mount = "/v1" /\ req.route.path \notin {"/emails", "/calendar"}

\* C24: a request that matches no defined route has been answered, once it
\* is answered, with 404 NOT_FOUND, with or without a credential.
C24_UnmatchedIs404 ==
    (req.st = "done" /\ MatchesNoRoute) =>
        (req.res.status = 404 /\ req.res.code = "NOT_FOUND")

(* ---- claims about payloads with several scope fields ---- *)
\* C25: the scope set comes from exactly one field, the first in the order
\* scopes, scope, permissions that is there: a scopes array decides alone,
\* also when empty; without it a non-empty scope string decides alone; an
\* empty or missing scope string leaves it to permissions.
C25_FirstFieldWins ==
    sc.mixed.done =>
        LET p == sc.payload
            out == sc.mixed.val
        IN  /\ p.scopes.has => out = p.scopes.val
            /\ (~p.scopes.has /\ p.scope.has /\ p.scope.val # <<>>) =>
                  Range(out) \ {""} = Range(p.scope.val) \ {" "}
            /\ (~p.scopes.has /\ (~p.scope.has \/ p.scope.val = <<>>)) =>
                  out = p.permissions.val
C25_Witness ==
    /\ sc.mixed = Out(<<>>)
    /\ sc.payload.scopes = Arr(<<>>)
    /\ sc.payload.scope = Str(<<"calendar.write", " ", "email.read">>)
    /\ sc.payload.permissions = Arr(<<"calendar.write">>)

(* ---- claims about mock mode ---- *)
\* validateToken takes its mock branch
MockMode == projectId = "" \/ config.nodeEnv = "development"

C27_HandleCreatedOnce ==
    /\ [](/\ (\E i \in Calls : Did(reqs[i], "getJWKS")) <=> jwks # "null"
          /\ keyset # "none" => jwks # "null")
    /\ [][jwks # "null" => jwks' = jwks]_vars
C27_Witness ==
    /\ jwks = "handle"
    /\ \A i \in Calls : reqs[i].st = "verifying" /\ Did(reqs[i], "getJWKS")
    /\ \E i \in Calls : Waiting(reqs[i])

(* ---- claims about the frontend API client ---- *)
\* the client's call has been answered with an error status
ErrorStatus == cl.st = "settled" /\ cl.status \notin 200..299 /\ cl.status # 0
\* the request left with an Authorization header
Attached == cl.st \in {"sent", "settled"} /\ cl.authorization # NoAuthorization

\* C28 as stated: every 401 navigates to /auth/signin and is rejected, every
\* other error status is rejected without navigation, and the Authorization
\* header is attached exactly when a session token is stored.
C28_Redirect401AndAttach ==
    /\ (ErrorStatus /\ cl.status = 401) =>
          (cl.location = "/auth/signin" /\ cl.promise = "rejected")
    /\ (ErrorStatus /\ cl.status # 401) =>
          (cl.location = cl.before /\ cl.promise = "rejected")
    /\ cl.st \in {"sent", "settled"} => (Attached <=> cl.stored # NoClaim)

\* C28: in a browser every 401 navigates to /auth/signin, outside one none
\* does, and the promise is rejected either way; every other error status is
\* rejected without navigation; the Authorization header is attached exactly
\* when a non-empty session token is stored, and carries that token.
C28_Redirect401InBrowser ==
    /\ (ErrorStatus /\ cl.status = 401) =>
          /\ cl.promise = "rejected"
          /\ cl.location = IF cl.window THEN "/auth/signin" ELSE cl.before
    /\ (ErrorStatus /\ cl.status # 401) =>
          (cl.location = cl.before /\ cl.promise = "rejected")
    /\ cl.st \in {"sent", "settled"} =>
          /\ Attached <=> (cl.window /\ cl.stored \notin {NoClaim, ""})
          /\ Attached => cl.authorization = <<"Bearer ", cl.stored>>
C28_Witness ==
    /\ cl.st = "settled" /\ cl.status = 401 /\ cl.window
    /\ cl.before = "/" /\ cl.location = "/auth/signin"
    /\ cl.promise = "rejected"
    /\ cl.authorization = <<"Bearer ", "session-token">>

====
